---- MODULE Spec2Model ----
(***************************************************************************)
(* A model of s3torchconnector/s3path.py: the path grammar S3Parser and    *)
(* the path node S3Path over an object store.                              *)
(*                                                                         *)
(* Strings are sequences of one-character strings, so that split, lstrip,  *)
(* rpartition, startswith and endswith are computed character by           *)
(* character as the code computes them.                                    *)
(***************************************************************************)
EXTENDS Integers, Sequences, FiniteSets, TLC

(***************************************************************************)
(* Characters and string primitives (Python str methods used by the code). *)
(***************************************************************************)
Letters == {"a", "b", "s"}
Digits == {"3"}
\* urllib.parse.scheme_chars, restricted to the characters of the model
SchemeChars == Letters \cup Digits \cup {"+", "-", "."}

EmptyStr == <<>>
Sep == <<"/">>

\* s.startswith(p)
StartsWith(s, p) == Len(s) >= Len(p) /\ SubSeq(s, 1, Len(p)) = p

\* s.endswith(p)
EndsWith(s, p) == Len(s) >= Len(p) /\ SubSeq(s, Len(s) - Len(p) + 1, Len(s)) = p

\* p in s (substring test)
Contains(s, p) == \E i \in 1..(Len(s) - Len(p) + 1) : SubSeq(s, i, i + Len(p) - 1) = p

\* s.find(c) for a single character, 1-based; 0 when absent
Find(s, c) ==
    IF \E i \in 1..Len(s) : s[i] = c
    THEN CHOOSE i \in 1..Len(s) : s[i] = c /\ \A j \in 1..(i - 1) : s[j] # c
    ELSE 0

\* s.rfind(c) for a single character, 1-based; 0 when absent
RFind(s, c) ==
    IF \E i \in 1..Len(s) : s[i] = c
    THEN CHOOSE i \in 1..Len(s) : s[i] = c /\ \A j \in (i + 1)..Len(s) : s[j] # c
    ELSE 0

\* s.lstrip("/")
LStrip(s) ==
    LET n == IF \E i \in 1..Len(s) : s[i] # "/"
             THEN CHOOSE i \in 1..Len(s) : s[i] # "/" /\ \A j \in 1..(i - 1) : s[j] = "/"
             ELSE Len(s) + 1
    IN SubSeq(s, n, Len(s))

\* s.rstrip("/")
RStrip(s) ==
    LET n == IF \E i \in 1..Len(s) : s[i] # "/"
             THEN CHOOSE i \in 1..Len(s) : s[i] # "/" /\ \A j \in (i + 1)..Len(s) : s[j] = "/"
             ELSE 0
    IN SubSeq(s, 1, n)

\* s.rpartition("/"): <<head, tail>> (the separator itself is dropped by the callers)
RPartition(s) ==
    LET i == RFind(s, "/")
    IN IF i = 0 THEN <<EmptyStr, s>>
       ELSE <<SubSeq(s, 1, i - 1), SubSeq(s, i + 1, Len(s))>>

\* lexicographic order of strings by character code ('/' < '3' < 'a' < 'b' < 's')
CharCode(c) ==
    CASE c = "/" -> 47 [] c = "3" -> 51 [] c = ":" -> 58
      [] c = "a" -> 97 [] c = "b" -> 98 [] c = "s" -> 115 [] OTHER -> 0

StrLess(s, t) ==
    \E i \in 1..(Len(t)) :
        /\ i <= Len(s) + 1
        /\ SubSeq(s, 1, i - 1) = SubSeq(t, 1, i - 1)
        /\ (i = Len(s) + 1 \/ CharCode(s[i]) < CharCode(t[i]))

(***************************************************************************)
(* urllib.parse.urlparse, as far as S3Parser uses it: the scheme before    *)
(* the first ':', the netloc after a leading '//' up to the next '/', and  *)
(* the remaining path.  The model's strings hold no '?', '#' or ';'.       *)
(***************************************************************************)
\* the netloc ends at the first '/' of tail, at index k (0: tail has none)
UrlCutNetloc(scheme, tail, k) ==
    IF k = 0 THEN [scheme |-> scheme, netloc |-> tail, path |-> EmptyStr]
    ELSE [scheme |-> scheme, netloc |-> SubSeq(tail, 1, k - 1),
          path |-> SubSeq(tail, k, Len(tail))]

\* a netloc follows only a leading '//'
UrlAfterScheme(scheme, rest) ==
    IF StartsWith(rest, <<"/", "/">>)
    THEN UrlCutNetloc(scheme, SubSeq(rest, 3, Len(rest)),
                      Find(SubSeq(rest, 3, Len(rest)), "/"))
    ELSE [scheme |-> scheme, netloc |-> EmptyStr, path |-> rest]

\* the characters before the first ':', at index i, are a scheme when the first is a
\* letter and all are scheme characters
UrlSplitScheme(url, i) ==
    IF i > 1 /\ url[1] \in Letters /\ \A j \in 1..(i - 1) : url[j] \in SchemeChars
    THEN UrlAfterScheme(SubSeq(url, 1, i - 1), SubSeq(url, i + 1, Len(url)))
    ELSE UrlAfterScheme(EmptyStr, url)

urlparse(url) == UrlSplitScheme(url, Find(url, ":"))

(***************************************************************************)
(* S3Parser                                                                *)
(***************************************************************************)
\* the return statements of S3Parser.split, pn the rpartition of the stripped prefix
SplitResult(u, pn) ==
    IF u.netloc = EmptyStr THEN <<u.netloc, pn[2]>>
    ELSE <<u.scheme \o <<":", "/", "/">> \o u.netloc \o Sep \o pn[1], pn[2]>>

SplitParsed(u) == SplitResult(u, RPartition(LStrip(u.path)))

\* S3Parser.split: <<parent, name>>
split(path) == SplitParsed(urlparse(path))

SplitdriveParsed(u) == <<u.scheme \o <<":", "/", "/">> \o u.netloc, LStrip(u.path)>>

\* S3Parser.splitdrive: <<drive, key>>
splitdrive(path) == SplitdriveParsed(urlparse(path))

\* S3Parser.isabs: the string holds "://"
isabs(path) == Contains(path, <<":", "/", "/">>)

\* S3Parser.sep joined between segments: "/".join(segs)
RECURSIVE JoinSep(_)
JoinSep(segs) ==
    IF Len(segs) = 0 THEN EmptyStr
    ELSE IF Len(segs) = 1 THEN segs[1]
    ELSE segs[1] \o Sep \o JoinSep(Tail(segs))

(***************************************************************************)
(* pathlib_abc.PurePathBase, the accessors S3Path inherits.  A node is a   *)
(* record of the four slots of S3Path.                                     *)
(***************************************************************************)
\* S3Path.__init__ with a single path segment and the given collaborators
S3Path(raw, client, region, config) ==
    [_raw_path |-> raw, _client |-> client, _region |-> region,
     _s3_client_config |-> config]

\* PurePathBase.__str__
str(self) == self._raw_path

\* PurePathBase._stack: <<anchor, names>>, names from the last segment to the first;
\* pn is split(path), and the loop ends when the path is its own parent
RECURSIVE StackStep(_, _, _)
StackStep(path, names, pn) ==
    IF path = pn[1] THEN <<path, names>>
    ELSE StackStep(pn[1], Append(names, pn[2]), split(pn[1]))

_stack(self) == StackStep(self._raw_path, <<>>, split(self._raw_path))

\* PurePathBase.anchor
anchor(self) == _stack(self)[1]

\* PurePathBase.drive
drive(self) == splitdrive(anchor(self))[1]

\* the names of a stack, first to last
Reversed(names) == [i \in 1..Len(names) |-> names[Len(names) + 1 - i]]

PartsOfStack(st) == IF st[1] # EmptyStr THEN <<st[1]>> \o Reversed(st[2]) ELSE Reversed(st[2])

\* PurePathBase.parts: the anchor, when not empty, then the names first to last
parts(self) == PartsOfStack(_stack(self))

\* PurePathBase.is_absolute
is_absolute(self) == isabs(self._raw_path)

BucketOfDrive(absolute, d) ==
    IF absolute /\ StartsWith(d, <<"s", "3", ":", "/", "/">>)
    THEN SubSeq(d, 6, Len(d))
    ELSE EmptyStr

\* S3Path.bucket
bucket(self) == BucketOfDrive(is_absolute(self), drive(self))

KeyOfParts(absolute, ps) ==
    IF absolute /\ Len(ps) > 1 THEN JoinSep(Tail(ps)) ELSE EmptyStr

\* S3Path.key
key(self) == KeyOfParts(is_absolute(self), parts(self))

\* the path of with_segments: one leading separator is dropped, and the anchor is put
\* in front of a path that does not start with it
AnchoredPath(anc, joined) ==
    IF StartsWith(joined, Sep)
    THEN IF ~StartsWith(Tail(joined), anc) THEN anc \o Tail(joined) ELSE Tail(joined)
    ELSE IF ~StartsWith(joined, anc) THEN anc \o joined ELSE joined

\* S3Path.with_segments: the derived node shares client, region and config
with_segments(self, pathsegments) ==
    S3Path(AnchoredPath(anchor(self), JoinSep(pathsegments)),
           self._client, self._region, self._s3_client_config)

(***************************************************************************)
(* The storage client (S3Client of _s3client.py, not part of the modelled  *)
(* source): one bucket whose objects are a function from keys to the       *)
(* object's size and modification time.  A call on any other bucket fails  *)
(* with S3Exception.                                                       *)
(***************************************************************************)
BucketName == <<"b">>

NoDelimiter == EmptyStr

\* One record of the call log of an operation: the call, the pages of a listing it
\* delivered, the class of the error it raised and the backend's cause of it.
Call(name, k, delimiter, pages, error, cause) ==
    [call |-> name, key |-> k, delimiter |-> delimiter, pages |-> pages,
     error |-> error, cause |-> cause]

\* The call record of a call with no listing: it raised S3Exception or nothing.
PlainCall(name, k, ok, cause) ==
    Call(name, k, EmptyStr, 0, IF ok THEN "None" ELSE "S3Exception",
         IF ok THEN "None" ELSE cause)

\* head_object(bucket, key) -> {key, size, last_modified}, or S3Exception when absent
head_object(objs, b, k) ==
    IF b = BucketName /\ k \in DOMAIN objs
    THEN [ok |-> TRUE, key |-> k, size |-> objs[k].size,
          last_modified |-> objs[k].last_modified]
    ELSE [ok |-> FALSE, key |-> k, size |-> 0, last_modified |-> "None"]

\* The entry a key contributes to a listing of prefix: its common prefix when the
\* rest of the key holds the delimiter, else the object itself.
ListingEntry(k, prefix, delimiter) ==
    LET rest == SubSeq(k, Len(prefix) + 1, Len(k))
        i == IF delimiter = NoDelimiter THEN 0 ELSE Find(rest, delimiter[1])
    IN IF i > 0 THEN [kind |-> "prefix", key |-> prefix \o SubSeq(rest, 1, i)]
       ELSE [kind |-> "object", key |-> k]

\* The entries of a set in the order of their keys.
RECURSIVE SortEntries(_)
SortEntries(S) ==
    IF S = {} THEN <<>>
    ELSE LET m == CHOOSE e \in S : \A f \in S : f = e \/ StrLess(e.key, f.key)
         IN <<m>> \o SortEntries(S \ {m})

\* A sequence cut into pages of at most n entries; an empty listing is one empty page.
RECURSIVE Chunks(_, _)
Chunks(seq, n) ==
    IF Len(seq) <= n THEN <<seq>>
    ELSE <<SubSeq(seq, 1, n)>> \o Chunks(SubSeq(seq, n + 1, Len(seq)), n)

\* One ListingPage: its common prefixes and its object records, each in listing order.
ListingPage(objs, chunk) ==
    LET IsPrefix(e) == e.kind = "prefix"
        IsObject(e) == e.kind = "object"
        ps == SelectSeq(chunk, IsPrefix)
        os == SelectSeq(chunk, IsObject)
    IN [common_prefixes |-> [i \in 1..Len(ps) |-> ps[i].key],
        object_info |-> [i \in 1..Len(os) |->
                            [key |-> os[i].key, size |-> objs[os[i].key].size,
                             last_modified |-> objs[os[i].key].last_modified]]]

\* list_objects(bucket, prefix, delimiter) -> the pages of the listing, fetched lazily
list_objects(objs, b, prefix, delimiter, pageSize) ==
    LET matching == {k \in DOMAIN objs : StartsWith(k, prefix)}
        entries == {ListingEntry(k, prefix, delimiter) : k \in matching}
        chunks == Chunks(SortEntries(entries), pageSize)
    IN [valid |-> b = BucketName,
        pages |-> [i \in 1..Len(chunks) |-> ListingPage(objs, chunks[i])]]

\* One request of a listing: the entries after the continuation token, at most
\* pageSize of them, whether more remain, and the token for the next request.
PageOf(objs, b, rest, pageSize, token) ==
    [valid |-> b = BucketName,
     page |-> ListingPage(objs, SubSeq(rest, 1, IF Len(rest) > pageSize THEN pageSize
                                                ELSE Len(rest))),
     truncated |-> Len(rest) > pageSize,
     token |-> IF rest = <<>> THEN token
               ELSE rest[IF Len(rest) > pageSize THEN pageSize ELSE Len(rest)].key]

\* The page a listing delivers when it is asked for the entries after token: it is
\* read from the bucket as it is at the request.
PageAfter(objs, b, prefix, delimiter, pageSize, token) ==
    PageOf(objs, b,
           SortEntries({ e \in { ListingEntry(k, prefix, delimiter) :
                                   k \in { x \in DOMAIN objs : StartsWith(x, prefix) } } :
                           StrLess(token, e.key) }),
           pageSize, token)

\* get_object(bucket, key) -> byte stream: S3Exception when the key is absent or
\* the backend refuses the request (getFault "AccessDenied"); getFault "Interrupt" is
\* an error that is not an S3Exception, raised inside the call.
get_object(objs, b, k, getFault) ==
    IF getFault = "Interrupt" THEN [error |-> "RuntimeError", cause |-> "Interrupt"]
    ELSE IF getFault = "AccessDenied"
    THEN [error |-> "S3Exception", cause |-> "AccessDenied"]
    ELSE IF b = BucketName /\ k \in DOMAIN objs THEN [error |-> "None", cause |-> "None"]
    ELSE [error |-> "S3Exception", cause |-> "NoSuchKey"]

\* put_object(bucket, key) -> byte writer
put_object(b, k) ==
    IF b = BucketName THEN [error |-> "None", cause |-> "None"]
    ELSE [error |-> "S3Exception", cause |-> "NoSuchBucket"]

\* The object a writer leaves when it is closed with nothing written.
EmptyObject == [size |-> 0, last_modified |-> "now"]

\* writer.close() of a writer nothing was written to: the zero-byte object exists
close_writer(objs, k) ==
    [x \in DOMAIN objs \cup {k} |-> IF x = k THEN EmptyObject ELSE objs[x]]

\* delete_object(bucket, key): idempotent, an absent key is not an error
delete_object(objs, b, k) ==
    IF b = BucketName
    THEN [error |-> "None", cause |-> "None", objects |-> [x \in DOMAIN objs \ {k} |-> objs[x]]]
    ELSE [error |-> "S3Exception", cause |-> "NoSuchBucket", objects |-> objs]

(***************************************************************************)
(* Outcomes of an operation: a returned value or a raised exception, the   *)
(* objects of the bucket afterwards and the client calls made, in order.   *)
(***************************************************************************)
NoExc == [type |-> "None", text |-> "", arg |-> EmptyStr]

\* An exception: its class, its message template and the string formatted into it.
Exc(type, text, arg) == [type |-> type, text |-> text, arg |-> arg]

Return(value, objs, calls) ==
    [raised |-> FALSE, exc |-> NoExc, value |-> value, objects |-> objs, calls |-> calls]

Raise(exc, objs, calls) ==
    [raised |-> TRUE, exc |-> exc, value |-> "None", objects |-> objs, calls |-> calls]

S_IFDIR == "S_IFDIR"
S_IFREG == "S_IFREG"

(***************************************************************************)
(* S3Path: the operations on the backend                                   *)
(***************************************************************************)
\* the calls stat has made when it answers from its first, second or third probe
StatCalls(k, h1, h2, l3, probes) ==
    SubSeq(<<PlainCall("head_object", k, h1.ok, "NoSuchKey"),
             PlainCall("head_object", k \o Sep, h2.ok, "NoSuchKey"),
             Call("list_objects", k, NoDelimiter,
                  IF l3.valid THEN Len(l3.pages) ELSE 0,
                  IF l3.valid THEN "None" ELSE "S3Exception",
                  IF l3.valid THEN "None" ELSE "NoSuchBucket")>>,
           1, probes)

\* StatCascade with its first two try blocks swapped: the key with a separator is
\* headed before the key itself
StatCascadeMarkerFirst(objs, path, k, h1, h2, l3) ==
    IF h2.ok
    THEN Return([st_mode |-> S_IFDIR, st_size |-> h2.size, st_mtime |-> h2.last_modified],
                objs, <<PlainCall("head_object", k \o Sep, h2.ok, "NoSuchKey")>>)
    ELSE IF h1.ok
    THEN Return([st_mode |-> IF EndsWith(h1.key, Sep) THEN S_IFDIR ELSE S_IFREG,
                 st_size |-> h1.size, st_mtime |-> h1.last_modified],
                objs, <<PlainCall("head_object", k \o Sep, h2.ok, "NoSuchKey"),
                        PlainCall("head_object", k, h1.ok, "NoSuchKey")>>)
    ELSE IF l3.valid /\ Len(l3.pages) > 0 /\ Len(l3.pages[1].object_info) > 0
    THEN Return([st_mode |-> S_IFDIR, st_size |-> 0, st_mtime |-> "None"],
                objs, StatCalls(k, h1, h2, l3, 3))
    ELSE Raise(Exc("ValueError", "No stats available for {self}; it may not exist.", path),
               objs, StatCalls(k, h1, h2, l3, 3))

\* the try blocks of S3Path.stat: h1 and h2 are the two head_object calls, l3 the
\* listing of the key as a prefix, read to its end by list()
StatCascade(objs, path, k, h1, h2, l3) ==
    IF h1.ok
    THEN Return([st_mode |-> IF EndsWith(h1.key, Sep) THEN S_IFDIR ELSE S_IFREG,
                 st_size |-> h1.size, st_mtime |-> h1.last_modified],
                objs, StatCalls(k, h1, h2, l3, 1))
    ELSE IF h2.ok
    THEN Return([st_mode |-> S_IFDIR, st_size |-> h2.size, st_mtime |-> h2.last_modified],
                objs, StatCalls(k, h1, h2, l3, 2))
    ELSE IF l3.valid /\ Len(l3.pages) > 0 /\ Len(l3.pages[1].object_info) > 0
    THEN Return([st_mode |-> S_IFDIR, st_size |-> 0, st_mtime |-> "None"],
                objs, StatCalls(k, h1, h2, l3, 3))
    ELSE Raise(Exc("ValueError", "No stats available for {self}; it may not exist.", path),
               objs, StatCalls(k, h1, h2, l3, 3))

StatProbes(objs, path, b, k, pageSize) ==
    StatCascade(objs, path, k, head_object(objs, b, k), head_object(objs, b, k \o Sep),
                list_objects(objs, b, k, NoDelimiter, pageSize))

\* S3Path.stat: head the key, then the key with a separator, then list the key as
\* a prefix; the value is the stat record, ValueError when all three find nothing.
stat(objs, self, pageSize) == StatProbes(objs, str(self), bucket(self), key(self), pageSize)

\* PathBase.is_dir of a stat outcome: a directory's record; a ValueError is False
IsDirStat(st) == ~st.raised /\ st.value.st_mode = S_IFDIR

\* PathBase.is_dir
is_dir(objs, self, pageSize) == IsDirStat(stat(objs, self, pageSize))

\* the branches of S3Path.open on the mode's action, g and w the client's answers
OpenAction(objs, path, absolute, k, action, text, buffering, g, w) ==
    IF buffering # -1 \/ ~absolute
    THEN Raise(Exc("UnsupportedOperation", "", EmptyStr), objs, <<>>)
    ELSE IF action = <<"r">>
    THEN IF g.error = "S3Exception"
         THEN Raise(Exc("FileNotFoundError", "[Errno 2] Not found: {self}", path), objs,
                    <<Call("get_object", k, NoDelimiter, 0, g.error, g.cause)>>)
         ELSE IF g.error # "None"
         THEN Raise(Exc(g.error, g.cause, EmptyStr), objs,
                    <<Call("get_object", k, NoDelimiter, 0, g.error, g.cause)>>)
         ELSE Return([stream |-> "reader", text |-> text], objs,
                     <<Call("get_object", k, NoDelimiter, 0, g.error, g.cause)>>)
    ELSE IF action = <<"w">>
    THEN IF w.error # "None"
         THEN Raise(Exc(w.error, w.cause, EmptyStr), objs,
                    <<Call("put_object", k, NoDelimiter, 0, w.error, w.cause)>>)
         ELSE Return([stream |-> "writer", text |-> text], objs,
                     <<Call("put_object", k, NoDelimiter, 0, w.error, w.cause)>>)
    ELSE Raise(Exc("UnsupportedOperation", "", EmptyStr), objs, <<>>)

\* the mode without its flags "b", "t" and "U"
ModeAction(mode) == LET NotFlag(c) == c \notin {"b", "t", "U"} IN SelectSeq(mode, NotFlag)

OpenKey(objs, self, b, k, mode, buffering, getFault) ==
    OpenAction(objs, str(self), is_absolute(self), k, ModeAction(mode),
               \A i \in 1..Len(mode) : mode[i] # "b", buffering,
               get_object(objs, b, k, getFault), put_object(b, k))

\* S3Path.open: the file object, or the exception raised
open(objs, self, mode, buffering, getFault) ==
    OpenKey(objs, self, bucket(self), key(self), mode, buffering, getFault)

\* The concatenation of a sequence of sequences.
RECURSIVE Flatten(_)
Flatten(seqs) == IF Len(seqs) = 0 THEN <<>> ELSE Head(seqs) \o Flatten(Tail(seqs))

\* One child yielded by iterdir: the path string of with_segments(segment), the list
\* of the page it was made from and the number of that page.
Child(anc, segment, from, n) ==
    [path |-> AnchoredPath(anc, segment), from |-> from, page |-> n]

\* the object records of a page whose key is not k
OtherObjects(k, page) == LET NotSelf(info) == info.key # k IN SelectSeq(page.object_info, NotSelf)

\* ChildrenOf with the two loops of the page swapped: the objects are yielded first
ChildrenOfObjectsFirst(anc, prefixes, infos, n) ==
    [i \in 1..Len(infos) |-> Child(anc, infos[i].key, "object_info", n)]
    \o [i \in 1..Len(prefixes) |-> Child(anc, RStrip(prefixes[i]), "common_prefixes", n)]

ChildrenOf(anc, prefixes, infos, n) ==
    [i \in 1..Len(prefixes) |-> Child(anc, RStrip(prefixes[i]), "common_prefixes", n)]
    \o [i \in 1..Len(infos) |-> Child(anc, infos[i].key, "object_info", n)]

\* The children iterdir yields for page number n of the listing of key k: a node per
\* common prefix, then a node per object whose key is not k.
PageChildren(anc, k, page, n) == ChildrenOf(anc, page.common_prefixes, OtherObjects(k, page), n)

\* the number of the first page with a child, 0 when no page has one
FirstChildPage(children) ==
    IF \E n \in 1..Len(children) : children[n] # <<>>
    THEN CHOOSE n \in 1..Len(children) :
            children[n] # <<>> /\ \A m \in 1..(n - 1) : children[m] = <<>>
    ELSE 0

\* IterdirConsume without the "except S3Exception: pass" of the generator: a failing
\* fetch raises to the consumer
IterdirConsumePropagates(objs, st, k, children, failed, first, pull) ==
    IF pull = "next" /\ first # 0
    THEN Return([children |-> <<children[first][1]>>, exhausted |-> FALSE], objs,
                Append(st.calls, Call("list_objects", k, Sep, first, "None", "None")))
    ELSE IF failed
    THEN Raise(Exc("S3Exception", "ListingFailed", EmptyStr), objs,
               Append(st.calls,
                      Call("list_objects", k, Sep, Len(children), "S3Exception",
                           "ListingFailed")))
    ELSE Return([children |-> Flatten(children), exhausted |-> TRUE], objs,
                Append(st.calls, Call("list_objects", k, Sep, Len(children), "None", "None")))

\* The generator seen by its consumer: children are the children of the pages
\* delivered, failed says the fetch after them raised S3Exception (which the
\* generator swallows), first is the first page with a child.
IterdirConsume(objs, st, k, children, failed, first, pull) ==
    IF pull = "next" /\ first # 0
    THEN Return([children |-> <<children[first][1]>>, exhausted |-> FALSE], objs,
                Append(st.calls, Call("list_objects", k, Sep, first, "None", "None")))
    ELSE Return([children |-> Flatten(children), exhausted |-> TRUE], objs,
                Append(st.calls,
                       Call("list_objects", k, Sep, Len(children),
                            IF failed THEN "S3Exception" ELSE "None",
                            IF failed THEN "ListingFailed" ELSE "None")))

IterdirChildren(objs, st, anc, k, delivered, failed, pull) ==
    IterdirConsume(objs, st, k,
                   [n \in 1..Len(delivered) |-> PageChildren(anc, k, delivered[n], n)],
                   failed,
                   FirstChildPage([n \in 1..Len(delivered) |->
                                      PageChildren(anc, k, delivered[n], n)]),
                   pull)

\* the pages delivered before the fetch that fails, if one does
IterdirPages(objs, st, anc, k, l, failing, pull) ==
    IterdirChildren(objs, st, anc, k,
                    IF failing = 0 THEN l.pages ELSE SubSeq(l.pages, 1, failing - 1),
                    failing # 0, pull)

IterdirListing(objs, st, anc, k, l, listFail, pull) ==
    IF ~IsDirStat(st)
    THEN Raise(Exc("NotADirectoryError", "not a s3 folder", EmptyStr), objs, st.calls)
    ELSE IterdirPages(objs, st, anc, k, l,
                      IF ~l.valid THEN 1
                      ELSE IF listFail \in 1..Len(l.pages) THEN listFail ELSE 0,
                      pull)

\* the key with one separator at its end, as iterdir and mkdir write it
DirKey(k) == IF EndsWith(k, Sep) THEN k ELSE k \o Sep

IterdirKey(objs, self, b, k, pageSize, listFail, pull) ==
    IterdirListing(objs, stat(objs, self, pageSize), anchor(self), k,
                   list_objects(objs, b, k, Sep, pageSize), listFail, pull)

\* S3Path.iterdir, a generator, run by a consumer that takes every child
\* (pull = "all", as list() does) or the first one only (pull = "next").  The
\* listing raises S3Exception when page number listFail is fetched (0: never).  The
\* value is the children taken and whether the generator ended.
iterdir(objs, self, pageSize, listFail, pull) ==
    IterdirKey(objs, self, bucket(self), DirKey(key(self)), pageSize, listFail, pull)

\* MkdirPut without the test of exist_ok: an existing directory always raises
MkdirPutIgnoresExistOk(objs, st, k, w, exist_ok) ==
    IF IsDirStat(st)
    THEN Raise(Exc("FileExistsError", "s3 folder already exists", EmptyStr), objs, st.calls)
    ELSE IF w.error # "None"
    THEN Raise(Exc(w.error, w.cause, EmptyStr), objs,
               Append(st.calls, Call("put_object", k, NoDelimiter, 0, w.error, w.cause)))
    ELSE Return("None", close_writer(objs, k),
                Append(st.calls, Call("put_object", k, NoDelimiter, 0, w.error, w.cause)))

MkdirPut(objs, st, k, w, exist_ok) ==
    IF IsDirStat(st)
    THEN IF exist_ok THEN Return("None", objs, st.calls)
         ELSE Raise(Exc("FileExistsError", "s3 folder already exists", EmptyStr),
                    objs, st.calls)
    ELSE IF w.error # "None"
    THEN Raise(Exc(w.error, w.cause, EmptyStr), objs,
               Append(st.calls, Call("put_object", k, NoDelimiter, 0, w.error, w.cause)))
    ELSE Return("None", close_writer(objs, k),
                Append(st.calls, Call("put_object", k, NoDelimiter, 0, w.error, w.cause)))

MkdirKey(objs, self, b, k, exist_ok, pageSize) ==
    MkdirPut(objs, stat(objs, self, pageSize), k, put_object(b, k), exist_ok)

\* S3Path.mkdir
mkdir(objs, self, exist_ok, pageSize) ==
    MkdirKey(objs, self, bucket(self), DirKey(key(self)), exist_ok, pageSize)

\* the delete_object call of unlink and rmdir, after the calls made before it
DeleteKey(objs, calls, k, d) ==
    IF d.error # "None"
    THEN Raise(Exc(d.error, d.cause, EmptyStr), objs,
               Append(calls, Call("delete_object", k, NoDelimiter, 0, d.error, d.cause)))
    ELSE Return("None", d.objects,
                Append(calls, Call("delete_object", k, NoDelimiter, 0, d.error, d.cause)))

\* UnlinkDelete with a test of existence: a node with no stat record raises
UnlinkDeleteChecksExistence(objs, path, st, k, d, missing_ok) ==
    IF IsDirStat(st)
    THEN IF missing_ok THEN Return("None", objs, st.calls)
         ELSE Raise(Exc("Exception",
                        "Path {self} is a directory; call rmdir instead of unlink.", path),
                    objs, st.calls)
    ELSE IF st.raised
    THEN Raise(Exc("FileNotFoundError", "[Errno 2] Not found: {self}", path), objs, st.calls)
    ELSE DeleteKey(objs, st.calls, k, d)

UnlinkDelete(objs, path, st, k, d, missing_ok) ==
    IF IsDirStat(st)
    THEN IF missing_ok THEN Return("None", objs, st.calls)
         ELSE Raise(Exc("Exception",
                        "Path {self} is a directory; call rmdir instead of unlink.", path),
                    objs, st.calls)
    ELSE DeleteKey(objs, st.calls, k, d)

UnlinkKey(objs, self, b, k, missing_ok, pageSize) ==
    UnlinkDelete(objs, str(self), stat(objs, self, pageSize), k,
                 delete_object(objs, b, k), missing_ok)

\* S3Path.unlink
unlink(objs, self, missing_ok, pageSize) ==
    UnlinkKey(objs, self, bucket(self), key(self), missing_ok, pageSize)

\* RmdirNext with "except Exception" in place of "except NotADirectoryError": the
\* not-empty error is handled like a missing directory, by deleting the key
RmdirNextCatchesAll(objs, path, it, k, d) == DeleteKey(objs, it.calls, k, d)

\* the try block of rmdir, it the outcome of next(self.iterdir()): only
\* NotADirectoryError is handled; next() of the ended generator raises StopIteration
RmdirNext(objs, path, it, k, d) ==
    IF it.raised THEN DeleteKey(objs, it.calls, k, d)
    ELSE IF it.value.children # <<>>
    THEN Raise(Exc("Exception", "Path {self} is not empty", path), objs, it.calls)
    ELSE Raise(Exc("StopIteration", "", EmptyStr), objs, it.calls)

RmdirKey(objs, self, b, k, pageSize, listFail) ==
    RmdirNext(objs, str(self), iterdir(objs, self, pageSize, listFail, "next"), k,
              delete_object(objs, b, k))

\* S3Path.rmdir: takes the first child of iterdir
rmdir(objs, self, pageSize, listFail) ==
    RmdirKey(objs, self, bucket(self), key(self), pageSize, listFail)

(***************************************************************************)
(* S3Path: the operations on the path alone                                *)
(***************************************************************************)
\* S3Path.glob: the two checks of the pattern, then the call of PurePosixPath, a
\* name the module neither imports nor defines
glob(objs, self, pattern) ==
    IF Contains(pattern, <<".", ".">>)
    THEN Raise(Exc("NotImplementedError",
                   "Relative paths with '..' not supported in glob patterns", EmptyStr),
               objs, <<>>)
    ELSE IF StartsWith(pattern, anchor(self)) \/ StartsWith(pattern, Sep)
    THEN Raise(Exc("NotImplementedError", "Non-relative patterns are unsupported",
                   EmptyStr),
               objs, <<>>)
    ELSE Raise(Exc("NameError", "name 'PurePosixPath' is not defined", EmptyStr),
               objs, <<>>)

\* S3Path.with_name
with_name(objs, self, name) ==
    IF split(name)[1] # EmptyStr
    THEN Raise(Exc("ValueError", "Invalid name {name!r}", name), objs, <<>>)
    ELSE Return(str(with_segments(self, <<split(self._raw_path)[1], name>>)), objs, <<>>)

\* posixpath.join, one step: a segment that starts with the separator replaces the
\* path, else it is appended, after a separator unless the path is empty or ends
\* with one
JoinStep(path, b) ==
    IF StartsWith(b, Sep) THEN b
    ELSE IF path = EmptyStr \/ EndsWith(path, Sep) THEN path \o b
    ELSE path \o Sep \o b

\* S3Parser.join
RECURSIVE join(_, _)
join(path, paths) ==
    IF Len(paths) = 0 THEN path ELSE join(JoinStep(path, Head(paths)), Tail(paths))

(***************************************************************************)
(* S3Path: serialisation                                                   *)
(***************************************************************************)
\* S3Path.__slots__
Slots == { "_region", "_s3_client_config", "_client", "_raw_path" }

\* _get_bucket_region() with none of its environment variables set
DefaultRegion == "us-east-1"

\* S3ClientConfig(throughput_target_gbps, part_size) with no environment variable set
DefaultConfig == [throughput_target_gbps |-> "400.0", part_size |-> "64 MiB"]

\* A client handle: the region and the configuration it is bound to, and the
\* construction it comes from (its identity).
S3Client(region, config, builder) ==
    [region |-> region, s3client_config |-> config, builder |-> builder]

\* the slots of the classes of the method resolution order: those of S3Path and
\* those of PurePathBase
MroSlots == Slots \cup { "_raw_path", "_resolving" }

\* getattr(self, slot, None); PurePathBase.__init__ has set _resolving to False
SlotValue(self, slot) ==
    IF slot \in DOMAIN self THEN self[slot]
    ELSE IF slot = "_resolving" THEN FALSE
    ELSE "None"

\* __getstate__ saving neither the client nor the region
GetstateWithoutRegion(self) ==
    <<"None", [slot \in MroSlots \ {"_client", "_region"} |-> SlotValue(self, slot)]>>

\* S3Path.__getstate__: every slot but the client
__getstate__(self) ==
    <<"None", [slot \in MroSlots \ {"_client"} |-> SlotValue(self, slot)]>>

\* the slots __setstate__ sets from the saved state, and the two it derives from the
\* environment when the state has no value for them
RestoredSlots(d) ==
    [slot \in (DOMAIN d \ {"client", "_client"}) \cup {"_region", "_s3_client_config"} |->
        IF slot \in DOMAIN d \ {"client", "_client"} THEN d[slot]
        ELSE IF slot = "_region" THEN DefaultRegion
        ELSE DefaultConfig]

\* the node with the client __setstate__ builds from its region and configuration
WithNewClient(n) ==
    [slot \in DOMAIN n \cup {"_client"} |->
        IF slot = "_client" THEN S3Client(n._region, n._s3_client_config, "__setstate__")
        ELSE n[slot]]

\* S3Path.__setstate__
__setstate__(state) == WithNewClient(RestoredSlots(state[2]))

\* a node saved and reconstructed: the node, its saved state and the new node
Pickled(self, state) == [original |-> self, state |-> state, node |-> __setstate__(state)]

(***************************************************************************)
(* The inputs of the model                                                 *)
(***************************************************************************)
\* the bucket holds at most MaxObjects objects
MaxObjects == 2
\* a listing page holds 1..MaxPageSize entries
MaxPageSize == 2
\* a failing listing fails at page 1..MaxListFail
MaxListFail == 2
\* other writers take at most MaxWrites steps between the client calls of one operation
MaxWrites == 1

Root == <<"s", "3", ":", "/", "/", "b">>

\* The keys other writers put into the bucket: a file "a", its marker "a/", a sibling
\* "aa" sharing its characters, and children and a grandchild of "a".
KeyUniverse ==
    { <<"a">>, <<"a", "/">>, <<"a", "a">>, <<"a", "/", "a">>, <<"a", "/", "a", "/">>,
      <<"a", "/", "a", "a">>, <<"a", "/", "a", "/", "a">> }

\* what other writers put: objects of one byte (mkdir writes objects of none)
ObjectInfos == { [size |-> 1, last_modified |-> "t1"] }

\* The path strings of the absolute nodes: the bucket root, written with and without
\* its separator, and nodes below it.
AbsolutePaths ==
    { Root, Root \o Sep, Root \o <<"/", "a">>, Root \o <<"/", "a", "/">>,
      Root \o <<"/", "a", "a">>, Root \o <<"/", "a", "/", "a">> }

\* A relative fragment: a node with no drive.
RelativePaths == { <<"a">> }

Node(path) == S3Path(path, "client", "region", "config")

\* the nodes the backend operations are applied to
Nodes == { Node(path) : path \in AbsolutePaths }
\* the nodes open, glob and with_name are applied to
AllNodes == Nodes \cup { Node(path) : path \in RelativePaths }

Modes == { <<"r">>, <<"r", "b">>, <<"w">>, <<"a">> }
Bufferings == { -1, 0 }
GetFaults == { "None", "AccessDenied", "Interrupt" }
PageSizes == 1..MaxPageSize
ListFails == 0..MaxListFail
Patterns == { <<"*">>, <<"*", "*", "/", "*">>, <<".", ".", "/", "a">>, <<"/", "a">> }
Names == { <<"a">>, <<"a", "/", "a">>, <<"/", "a">>, <<"/", "/", "a">>, EmptyStr }

\* the drives and the keys given to join
Drives == { Root, <<"s", "3", ":", "/", "/", "b", "b">> }
JoinKeys == { <<"a">>, <<"a", "a">>, <<"b">>, <<"a", "/", "a">> }

\* The nodes that are serialised: an absolute and a relative one, in the default or
\* another region, with the default or another configuration, holding a client the
\* caller shares or the client __init__ builds.
Regions == { DefaultRegion, "eu-west-1" }
Configs == { DefaultConfig, [throughput_target_gbps |-> "100.0", part_size |-> "8 MiB"] }
PickleNodes ==
    { S3Path(path, S3Client(IF builder = "caller" THEN DefaultRegion ELSE region,
                            IF builder = "caller" THEN DefaultConfig ELSE config, builder),
             region, config) :
        path \in { Root \o <<"/", "a">>, <<"a">> }, region \in Regions, config \in Configs,
        builder \in { "caller", "__init__" } }

(***************************************************************************)
(* The state: the objects of the bucket, the operation a caller is running *)
(* with the answers of the client calls it has made, and the operation     *)
(* that has ended with its outcome, until the caller goes on.  Every       *)
(* client call is a step of its own: other writers of the bucket act       *)
(* between the calls of an operation.                                      *)
(***************************************************************************)
VARIABLES
    objects,    \* the bucket: a function from the keys present to their size and mtime
    pc,         \* "idle": no operation; "running": between two calls; "done": ended
    before,     \* the objects when the operation was called
    frame,      \* the running operation: its arguments and the answers it has got
    result      \* the ended operation, its arguments and its outcome

vars == <<objects, pc, before, frame, result>>

NoObjects == [k \in {} |-> EmptyObject]

\* the answer of a head_object call that was not made
NoHead == [ok |-> FALSE, key |-> EmptyStr, size |-> 0, last_modified |-> "None"]

\* the pages of a listing that was not started
NoListing == [valid |-> TRUE, pages |-> <<>>]

NoFrame ==
    [op |-> "None", path |-> EmptyStr, bucket |-> EmptyStr, key |-> EmptyStr,
     anchor |-> EmptyStr, flag |-> FALSE, pageSize |-> 0, listFail |-> 0,
     stage |-> "None", h1 |-> NoHead, h2 |-> NoHead, l3 |-> NoListing,
     pages |-> <<>>, token |-> EmptyStr, writes |-> 0]

\* The frame of a call of op on node self: no client call is made yet.
NewFrame(op, self, flag, pageSize, listFail) ==
    [NoFrame EXCEPT !.op = op, !.path = str(self), !.bucket = bucket(self),
                    !.key = key(self), !.anchor = anchor(self), !.flag = flag,
                    !.pageSize = pageSize, !.listFail = listFail, !.stage = "head1"]

NoResult ==
    [op |-> "None", self |-> EmptyStr, flag |-> FALSE, text |-> EmptyStr,
     pageSize |-> 0, listFail |-> 0, quiet |-> TRUE, raised |-> FALSE, exc |-> NoExc,
     value |-> "None", calls |-> <<>>]

\* The record of an operation on node self with its arguments and its outcome out;
\* quiet says that no other writer acted between its client calls.
Done(op, self, flag, text, pageSize, listFail, quiet, out) ==
    [op |-> op, self |-> str(self), flag |-> flag, text |-> text,
     pageSize |-> pageSize, listFail |-> listFail, quiet |-> quiet, raised |-> out.raised,
     exc |-> out.exc, value |-> out.value, calls |-> out.calls]

\* An operation with at most one client call, as one step: its outcome is recorded
\* and the bucket is as it left it.
Finish(op, self, flag, text, pageSize, listFail, out) ==
    /\ pc = "idle"
    /\ Cardinality(DOMAIN out.objects) <= MaxObjects
    /\ pc' = "done"
    /\ before' = objects
    /\ objects' = out.objects
    /\ frame' = NoFrame
    /\ result' = Done(op, self, flag, text, pageSize, listFail, TRUE, out)

\* The running operation has made a client call and goes on to its next one.
Step(fr) ==
    /\ pc' = "running"
    /\ before' = (IF pc = "idle" THEN objects ELSE before)
    /\ frame' = fr
    /\ UNCHANGED <<objects, result>>

\* The running operation ends with outcome out at the client call just made.
Finished(fr, out) ==
    /\ Cardinality(DOMAIN out.objects) <= MaxObjects
    /\ pc' = "done"
    /\ before' = (IF pc = "idle" THEN objects ELSE before)
    /\ objects' = out.objects
    /\ frame' = NoFrame
    /\ result' = Done(fr.op, Node(fr.path), fr.flag, EmptyStr, fr.pageSize, fr.listFail,
                      fr.writes = 0, out)

\* the stat record, or the ValueError, of the probes the operation has made
StatOf(fr) == StatCascade(objects, fr.path, fr.key, fr.h1, fr.h2, fr.l3)

\* self.stat() has answered st: stat returns or raises it; iterdir, mkdir, unlink and
\* rmdir, which called is_dir(), end here or go on to their next client call.
ResolvedStat(fr, st) ==
    IF fr.op = "stat" THEN Finished(fr, st)
    ELSE IF fr.op = "iterdir"
    THEN IF IsDirStat(st) THEN Step([fr EXCEPT !.stage = "pages"])
         ELSE Finished(fr, IterdirListing(objects, st, fr.anchor, DirKey(fr.key),
                                          NoListing, fr.listFail, "all"))
    ELSE IF fr.op = "rmdir"
    THEN IF IsDirStat(st) THEN Step([fr EXCEPT !.stage = "pages"])
         ELSE Step([fr EXCEPT !.stage = "delete"])
    ELSE IF fr.op = "mkdir"
    THEN IF IsDirStat(st)
         THEN Finished(fr, MkdirPut(objects, st, DirKey(fr.key),
                                    put_object(fr.bucket, DirKey(fr.key)), fr.flag))
         ELSE Step([fr EXCEPT !.stage = "put"])
    ELSE IF IsDirStat(st)
    THEN Finished(fr, UnlinkDelete(objects, fr.path, st, fr.key,
                                   delete_object(objects, fr.bucket, fr.key), fr.flag))
    ELSE Step([fr EXCEPT !.stage = "delete"])

\* stat's first probe has answered h1
AfterKeyHead(fr, h1) ==
    IF h1.ok
    THEN ResolvedStat([fr EXCEPT !.h1 = h1],
                      StatCascade(objects, fr.path, fr.key, h1, NoHead, NoListing))
    ELSE Step([fr EXCEPT !.h1 = h1, !.stage = "head2"])

\* The call of an operation that starts with self.stat(), up to its first client
\* call head_object(bucket, key).
BeginCall(fr) ==
    /\ pc = "idle"
    /\ AfterKeyHead(fr, head_object(objects, fr.bucket, fr.key))

\* stat's second probe has answered h2
AfterMarkerHead(fr, h2) ==
    IF h2.ok
    THEN ResolvedStat([fr EXCEPT !.h2 = h2],
                      StatCascade(objects, fr.path, fr.key, fr.h1, h2, NoListing))
    ELSE Step([fr EXCEPT !.h2 = h2, !.stage = "list3"])

\* stat's third probe is read to its end: l3 is the listing list() has built
ResolvedListing(fr, l3) ==
    ResolvedStat([fr EXCEPT !.l3 = l3, !.token = EmptyStr],
                 StatCascade(objects, fr.path, fr.key, fr.h1, fr.h2, l3))

\* the listing of stat's third probe has delivered p, or raised S3Exception
AfterPrefixPage(fr, p) ==
    IF ~p.valid THEN ResolvedListing(fr, [valid |-> FALSE, pages |-> fr.l3.pages])
    ELSE IF p.truncated
    THEN Step([fr EXCEPT !.l3 = [valid |-> TRUE, pages |-> Append(fr.l3.pages, p.page)],
                         !.token = p.token])
    ELSE ResolvedListing(fr, [valid |-> TRUE, pages |-> Append(fr.l3.pages, p.page)])

\* The generator of iterdir has ended or, under next(), yielded its first child:
\* iterdir's consumer has the children, rmdir goes on in its try block.
Consumed(fr, it) ==
    IF fr.op = "rmdir"
    THEN Finished(fr, RmdirNext(objects, fr.path, it, fr.key,
                                delete_object(objects, fr.bucket, fr.key)))
    ELSE Finished(fr, it)

\* the generator after the pages delivered; failed: the last fetch raised S3Exception
Yielded(fr, delivered, failed) ==
    Consumed(fr, IterdirChildren(objects, StatOf(fr), fr.anchor, DirKey(fr.key), delivered,
                                 failed, IF fr.op = "rmdir" THEN "next" ELSE "all"))

\* The listing of iterdir was asked for its page number n and has delivered p, or
\* raised S3Exception: under next() the generator stops at the first page with a
\* child, else it goes on until the listing ends.
AfterChildPage(fr, p, n) ==
    IF ~p.valid \/ fr.listFail = n THEN Yielded(fr, fr.pages, TRUE)
    ELSE IF fr.op = "rmdir" /\ PageChildren(fr.anchor, DirKey(fr.key), p.page, n) # <<>>
    THEN Yielded(fr, Append(fr.pages, p.page), FALSE)
    ELSE IF p.truncated
    THEN Step([fr EXCEPT !.pages = Append(fr.pages, p.page), !.token = p.token])
    ELSE Yielded(fr, Append(fr.pages, p.page), FALSE)

\* put_object of mkdir has answered w
AfterPut(fr, w) ==
    IF w.error # "None"
    THEN Finished(fr, MkdirPut(objects, StatOf(fr), DirKey(fr.key), w, fr.flag))
    ELSE Step([fr EXCEPT !.stage = "close"])

Init ==
    /\ objects = NoObjects
    /\ pc = "idle"
    /\ before = NoObjects
    /\ frame = NoFrame
    /\ result = NoResult

\* Another writer acts between two operations, or between two client calls of the
\* running operation, there at most MaxWrites times.
Undisturbed == pc = "idle" \/ (pc = "running" /\ frame.writes < MaxWrites)

\* the frame of the running operation counts the steps of other writers
Disturbed == IF pc = "running" THEN [frame EXCEPT !.writes = frame.writes + 1] ELSE frame

\* Another writer of the bucket puts an object.
EnvPut ==
    \E k \in KeyUniverse, info \in ObjectInfos :
        /\ Undisturbed
        /\ Cardinality(DOMAIN objects \cup {k}) <= MaxObjects
        /\ objects' = [x \in DOMAIN objects \cup {k} |-> IF x = k THEN info ELSE objects[x]]
        /\ before' = (IF pc = "idle" THEN objects' ELSE before)
        /\ frame' = Disturbed
        /\ UNCHANGED <<pc, result>>

\* Another writer of the bucket deletes an object.
EnvDelete ==
    \E k \in DOMAIN objects :
        /\ Undisturbed
        /\ objects' = [x \in DOMAIN objects \ {k} |-> objects[x]]
        /\ before' = (IF pc = "idle" THEN objects' ELSE before)
        /\ frame' = Disturbed
        /\ UNCHANGED <<pc, result>>

Open ==
    \E self \in AllNodes, mode \in Modes, buffering \in Bufferings, getFault \in GetFaults :
        Finish("open", self, buffering = -1, mode, 0, 0,
               open(objects, self, mode, buffering, getFault))

\* The calls of the operations on the backend, each up to its first client call.
Stat ==
    \E self \in Nodes, pageSize \in PageSizes :
        BeginCall(NewFrame("stat", self, FALSE, pageSize, 0))

Iterdir ==
    \E self \in Nodes, pageSize \in PageSizes, listFail \in ListFails :
        BeginCall(NewFrame("iterdir", self, FALSE, pageSize, listFail))

Mkdir ==
    \E self \in Nodes, exist_ok \in BOOLEAN, pageSize \in PageSizes :
        BeginCall(NewFrame("mkdir", self, exist_ok, pageSize, 0))

Unlink ==
    \E self \in Nodes, missing_ok \in BOOLEAN, pageSize \in PageSizes :
        BeginCall(NewFrame("unlink", self, missing_ok, pageSize, 0))

Rmdir ==
    \E self \in Nodes, pageSize \in PageSizes, listFail \in ListFails :
        BeginCall(NewFrame("rmdir", self, FALSE, pageSize, listFail))

\* stat: head_object(bucket, key + "/")
HeadMarker ==
    /\ pc = "running"
    /\ frame.stage = "head2"
    /\ AfterMarkerHead(frame, head_object(objects, frame.bucket, frame.key \o Sep))

\* stat: list() asks list_objects(bucket, key) for its next page
ListPrefix ==
    /\ pc = "running"
    /\ frame.stage = "list3"
    /\ AfterPrefixPage(frame, PageAfter(objects, frame.bucket, frame.key, NoDelimiter,
                                        frame.pageSize, frame.token))

\* iterdir: the loop asks list_objects(bucket, key + "/", delimiter="/") for its next
\* page
ListChildren ==
    /\ pc = "running"
    /\ frame.stage = "pages"
    /\ AfterChildPage(frame, PageAfter(objects, frame.bucket, DirKey(frame.key), Sep,
                                       frame.pageSize, frame.token),
                      Len(frame.pages) + 1)

\* mkdir: put_object(bucket, key + "/")
PutObject ==
    /\ pc = "running"
    /\ frame.stage = "put"
    /\ AfterPut(frame, put_object(frame.bucket, DirKey(frame.key)))

\* mkdir: writer.close()
CloseWriter ==
    /\ pc = "running"
    /\ frame.stage = "close"
    /\ Finished(frame, MkdirPut(objects, StatOf(frame), DirKey(frame.key),
                                put_object(frame.bucket, DirKey(frame.key)), frame.flag))

\* unlink, and rmdir in its except clause: delete_object(bucket, key)
DeleteObject ==
    /\ pc = "running"
    /\ frame.stage = "delete"
    /\ IF frame.op = "unlink"
       THEN Finished(frame, UnlinkDelete(objects, frame.path, StatOf(frame), frame.key,
                                         delete_object(objects, frame.bucket, frame.key),
                                         frame.flag))
       ELSE Finished(frame,
                     RmdirNext(objects, frame.path,
                               IterdirListing(objects, StatOf(frame), frame.anchor,
                                              DirKey(frame.key), NoListing,
                                              frame.listFail, "next"),
                               frame.key,
                               delete_object(objects, frame.bucket, frame.key)))

Glob ==
    \E self \in AllNodes, pattern \in Patterns :
        Finish("glob", self, FALSE, pattern, 0, 0, glob(objects, self, pattern))

WithName ==
    \E self \in AllNodes, name \in Names :
        Finish("with_name", self, FALSE, name, 0, 0, with_name(objects, self, name))

\* pickle.loads(pickle.dumps(self))
Pickle ==
    \E self \in PickleNodes :
        Finish("pickle", self, FALSE, EmptyStr, 0, 0,
               Return(Pickled(self, __getstate__(self)), objects, <<>>))

\* parser.split(parser.join(drive, key))
SplitJoin ==
    \E d \in Drives, k \in JoinKeys :
        Finish("split_join", Node(d), FALSE, k, 0, 0,
               Return(split(join(d, <<k>>)), objects, <<>>))

\* The caller has seen the outcome and goes on.
Continue ==
    /\ pc = "done"
    /\ pc' = "idle"
    /\ before' = objects
    /\ result' = NoResult
    /\ UNCHANGED <<objects, frame>>

Next ==
    \/ EnvPut
    \/ EnvDelete
    \/ Open
    \/ Stat
    \/ Iterdir
    \/ Mkdir
    \/ Unlink
    \/ Rmdir
    \/ HeadMarker
    \/ ListPrefix
    \/ ListChildren
    \/ PutObject
    \/ CloseWriter
    \/ DeleteObject
    \/ Glob
    \/ WithName
    \/ Pickle
    \/ SplitJoin
    \/ Continue

Spec == Init /\ [][Next]_vars

(***************************************************************************)
(* What the claims speak of                                                *)
(***************************************************************************)
\* An operation named op has ended, and no other writer acted between its client
\* calls: the claims speak of an operation on the bucket as it was when it was
\* called.
Ended(op) == pc = "done" /\ result.op = op /\ result.quiet

\* the node the ended operation was run on
Self == Node(result.self)

\* the node resolved as a directory when the operation was called
WasDir == is_dir(before, Self, 1)

\* the children list(self.iterdir()) gives in the bucket as it was when the operation
\* was called, with the page size and the listing failure of the operation
ChildrenBefore ==
    iterdir(before, Self, result.pageSize, result.listFail, "all").value.children

\* the operation made a client call of this name
Called(name) == \E i \in 1..Len(result.calls) : result.calls[i].call = name

\* the exception's message holds the string
Carries(exc, string) == Contains(exc.arg, string)

(***************************************************************************)
(* C1..C10                                                                 *)
(***************************************************************************)
\* C1: rmdir() on a node that resolves as a directory and whose iterdir() yields no
\* entry returns normally, without raising any exception.
C1_RmdirOfEmptyDirectoryReturns ==
    (Ended("rmdir") /\ WasDir /\ key(Self) # EmptyStr /\ result.listFail = 0
       /\ ChildrenBefore = <<>>)
        => ~result.raised

\* C2: rmdir() on a directory for which iterdir() yields at least one entry fails
\* with the not-empty error, issues no delete_object call and leaves the objects of
\* the backend as they were.
C2_RmdirOfNonEmptyDirectoryFails ==
    (Ended("rmdir") /\ WasDir /\ ChildrenBefore # <<>>)
        => /\ result.raised
           /\ result.exc.type = "Exception"
           /\ result.exc.text = "Path {self} is not empty"
           /\ ~Called("delete_object")
           /\ objects = before

\* C2 witness: rmdir has run on a directory with a child beside another object
C2_Witness ==
    /\ Ended("rmdir")
    /\ WasDir
    /\ ChildrenBefore # <<>>
    /\ result.exc.text = "Path {self} is not empty"
    /\ Cardinality(DOMAIN objects) = MaxObjects

\* C3: mkdir() on a node that already resolves as a directory raises the
\* already-exists error when exist_ok is false and returns normally when exist_ok
\* is true; either way no put_object is issued and the objects are unchanged.
C3_MkdirOfExistingDirectory ==
    (Ended("mkdir") /\ WasDir)
        => /\ ~result.flag => (result.raised /\ result.exc.type = "FileExistsError")
           /\ result.flag => ~result.raised
           /\ ~Called("put_object")
           /\ objects = before

\* C3 witness: both mkdir(exist_ok=True) returning and mkdir(exist_ok=False) raising
\* happen on a directory; the state is the raising one on a directory with no marker
C3_Witness ==
    /\ Ended("mkdir")
    /\ WasDir
    /\ ~result.flag
    /\ result.exc.type = "FileExistsError"
    /\ key(Self) \o Sep \notin DOMAIN before

\* C4: unlink(missing_ok) raises an error whenever the node resolves as a directory,
\* for both values of missing_ok.
C4_UnlinkOfDirectoryRaises ==
    (Ended("unlink") /\ WasDir) => result.raised

\* the keys of the objects below the directory key dk, without dk itself
KeysBelow(dk) == { k \in DOMAIN before : StartsWith(k, dk) /\ k # dk }

\* the part of a key after the directory key dk
AfterDir(dk, k) == SubSeq(k, Len(dk) + 1, Len(k))

\* the paths of the nodes of the objects that are immediate children of dk
FileChildPaths(dk) ==
    { Root \o Sep \o k : k \in { x \in KeysBelow(dk) : ~Contains(AfterDir(dk, x), Sep) } }

\* the paths of the nodes of the common prefixes one level below dk
DirChildPaths(dk) ==
    { Root \o Sep \o dk \o SubSeq(AfterDir(dk, k), 1, Find(AfterDir(dk, k), "/") - 1) :
        k \in { x \in KeysBelow(dk) : Contains(AfterDir(dk, x), Sep) } }

\* the paths of the children made from one list of the pages
PathsFrom(children, from) ==
    { children[i].path : i \in { j \in 1..Len(children) : children[j].from = from } }

CountFrom(children, from) ==
    Cardinality({ j \in 1..Len(children) : children[j].from = from })

\* C5: for a node that resolves as a directory, iterdir() yields page by page, in
\* listing order, one child per common prefix of the page and then one child per
\* object of the page: no directory child comes after a file child of its page, the
\* object whose key is the directory's key with its separator is never yielded, and
\* when the listing does not fail there is exactly one child per common prefix and
\* per other object below the directory.
C5_IterdirYieldsPrefixesThenObjects ==
    (Ended("iterdir") /\ ~result.raised)
        => LET ch == result.value.children
               dk == DirKey(key(Self))
           IN /\ \A i, j \in 1..Len(ch) :
                    i < j => /\ ch[i].page <= ch[j].page
                             /\ ch[i].page = ch[j].page
                                  => ~(ch[i].from = "object_info"
                                       /\ ch[j].from = "common_prefixes")
              /\ \A i \in 1..Len(ch) : ch[i].path # Root \o Sep \o dk
              /\ result.calls[Len(result.calls)].error = "None"
                    => /\ PathsFrom(ch, "common_prefixes") = DirChildPaths(dk)
                       /\ CountFrom(ch, "common_prefixes") = Cardinality(DirChildPaths(dk))
                       /\ PathsFrom(ch, "object_info") = FileChildPaths(dk)
                       /\ CountFrom(ch, "object_info") = Cardinality(FileChildPaths(dk))

\* C5 witness: one page gave a directory child and then a file child, though the
\* object's key comes before the common prefix in the listing (both are named alike)
C5_Witness ==
    /\ Ended("iterdir")
    /\ ~result.raised
    /\ Len(result.value.children) = 2
    /\ result.value.children[1].from = "common_prefixes"
    /\ result.value.children[2].from = "object_info"
    /\ result.value.children[1].page = result.value.children[2].page
    /\ result.value.children[1].path = result.value.children[2].path

\* C6: glob of a relative pattern yields the nodes of the hierarchy of iterdir whose
\* segments match: glob("*") on a directory yields exactly the children of iterdir.
C6_GlobYieldsMatchingNodes ==
    (Ended("glob") /\ result.text = <<"*">> /\ is_absolute(Self) /\ WasDir)
        => /\ ~result.raised
           /\ result.value = FileChildPaths(DirKey(key(Self)))
                               \cup DirChildPaths(DirKey(key(Self)))

\* C7: with_name(new_name) fails with a validation error for every new_name that
\* contains the separator, and then produces no node.
C7_WithNameRejectsSeparator ==
    (Ended("with_name") /\ is_absolute(Self) /\ Contains(result.text, Sep))
        => result.raised /\ result.exc.type = "ValueError"

\* C8: a node with a set drive and an empty key resolves as a directory in every
\* backend state: stat() yields a directory record.
C8_RootIsAlwaysDirectory ==
    (Ended("stat") /\ drive(Self) = Root /\ key(Self) = EmptyStr)
        => ~result.raised /\ result.value.st_mode = S_IFDIR

\* C9: open() in read mode converts only the backend's not-found signal into the
\* file-not-found error carrying the path; any other error raised by get_object
\* reaches the caller unchanged.
C9_OpenConvertsOnlyNotFound ==
    (Ended("open") /\ Called("get_object") /\ result.calls[1].error # "None")
        => IF result.calls[1].cause = "NoSuchKey"
           THEN result.exc.type = "FileNotFoundError" /\ Carries(result.exc, result.self)
           ELSE result.exc.type = result.calls[1].error
                /\ result.exc.text = result.calls[1].cause

\* the exception classes S3Path raises itself (the others come from the client or
\* from the interpreter)
RaisedByS3Path ==
    result.exc.type \in { "UnsupportedOperation", "FileNotFoundError", "ValueError",
                          "NotADirectoryError", "FileExistsError", "Exception",
                          "NotImplementedError" }

\* C10: every error raised by open, stat, iterdir, mkdir, unlink, rmdir, glob or
\* with_name carries the string form of the node's path in its message.
C10_ErrorsCarryThePath ==
    (pc = "done" /\ result.raised /\ RaisedByS3Path /\ is_absolute(Self))
        => Carries(result.exc, result.self)

(***************************************************************************)
(* C11..C20                                                                *)
(***************************************************************************)
\* the node resolved as a regular file when the operation was called
WasFile ==
    /\ ~stat(before, Self, 1).raised
    /\ stat(before, Self, 1).value.st_mode = S_IFREG

\* some object's key starts with the string
AnyKeyStartsWith(objs, prefix) == \E x \in DOMAIN objs : StartsWith(x, prefix)

\* C11: stat() probes in the order head_object(key), head_object(key + "/"),
\* list_objects(prefix = key) and answers from the first probe that succeeds: a
\* file record (a directory record when the key ends with the separator) with the
\* object's size and mtime from the first, a directory record from the second, a
\* zero-size directory record from the third when an object matches; it raises the
\* does-not-exist error exactly when all three find nothing.
C11_StatProbesInOrder ==
    Ended("stat")
        => LET k == key(Self)
               c == result.calls
           IN /\ Len(c) >= 1 /\ c[1].call = "head_object" /\ c[1].key = k
              /\ IF k \in DOMAIN before
                 THEN /\ Len(c) = 1
                      /\ ~result.raised
                      /\ result.value =
                            [st_mode |-> IF EndsWith(k, Sep) THEN S_IFDIR ELSE S_IFREG,
                             st_size |-> before[k].size,
                             st_mtime |-> before[k].last_modified]
                 ELSE /\ Len(c) >= 2 /\ c[2].call = "head_object" /\ c[2].key = k \o Sep
                      /\ IF k \o Sep \in DOMAIN before
                         THEN /\ Len(c) = 2
                              /\ ~result.raised
                              /\ result.value.st_mode = S_IFDIR
                         ELSE /\ Len(c) = 3
                              /\ c[3].call = "list_objects"
                              /\ c[3].key = k
                              /\ c[3].delimiter = NoDelimiter
                              /\ IF AnyKeyStartsWith(before, k)
                                 THEN /\ ~result.raised
                                      /\ result.value =
                                            [st_mode |-> S_IFDIR, st_size |-> 0,
                                             st_mtime |-> "None"]
                                 ELSE /\ result.raised
                                      /\ result.exc.type = "ValueError"

\* C11 witness: stat answered a file record from its first probe though the key with
\* a separator is an object too
C11_Witness ==
    /\ Ended("stat")
    /\ key(Self) \in DOMAIN before
    /\ key(Self) \o Sep \in DOMAIN before
    /\ ~result.raised
    /\ result.value.st_mode = S_IFREG
    /\ Len(result.calls) = 1

\* C12: unlink(missing_ok=True) on a node whose key is not in the backend raises
\* nothing and leaves the objects unchanged; unlink on a node that resolves as a
\* regular file removes the object at its key and no other object.
C12_UnlinkFrame ==
    /\ (Ended("unlink") /\ result.flag /\ key(Self) \notin DOMAIN before)
          => ~result.raised /\ objects = before
    /\ (Ended("unlink") /\ WasFile)
          => /\ ~result.raised
             /\ key(Self) \in DOMAIN before
             /\ objects = [x \in DOMAIN before \ {key(Self)} |-> before[x]]

\* C12 witness: unlink(missing_ok=True) has returned on a key that no object has and
\* that is no directory, with another object in the bucket
C12_Witness ==
    /\ Ended("unlink")
    /\ result.flag
    /\ key(Self) \notin DOMAIN before
    /\ ~WasDir
    /\ Called("delete_object")
    /\ ~result.raised
    /\ before # NoObjects

\* C13: serialising a node and reconstructing it is a round trip on everything but
\* the client: the saved state holds no client, the new node has the same path
\* string (it is equal to the original), the same region and the same configuration,
\* and a newly built client bound to that region and configuration.
C13_PickleRoundTrip ==
    Ended("pickle")
        => /\ DOMAIN result.value.state[2] \cap {"client", "_client"} = {}
           /\ str(result.value.node) = str(result.value.original)
           /\ result.value.node._region = result.value.original._region
           /\ result.value.node._s3_client_config = result.value.original._s3_client_config
           /\ result.value.node._client # result.value.original._client
           /\ result.value.node._client.region = result.value.original._region
           /\ result.value.node._client.s3client_config
                 = result.value.original._s3_client_config

\* C13 witness: the node was in another region than the default, with another
\* configuration, and held a shared client bound to the defaults
C13_Witness ==
    /\ Ended("pickle")
    /\ result.value.original._region # DefaultRegion
    /\ result.value.original._s3_client_config # DefaultConfig
    /\ result.value.original._client.region = DefaultRegion
    /\ result.value.node._client.region # DefaultRegion

\* C14: for every drive d of the form scheme://bucket and every non-empty key k
\* without a separator, split(join(d, k)) is the pair (d, k).
C14_SplitJoinRoundTrip ==
    (Ended("split_join") /\ result.text # EmptyStr /\ ~Contains(result.text, Sep))
        => result.value = <<result.self, result.text>>

\* C15: during rmdir(), whatever the number of children and with or without a marker
\* object, no listing is consumed beyond its first page.
C15_RmdirReadsOnePage ==
    Ended("rmdir")
        => \A i \in 1..Len(result.calls) :
              result.calls[i].call = "list_objects" => result.calls[i].pages <= 1

\* the children of the pages before page number n
ChildrenBeforePage(children, n) ==
    LET Earlier(c) == c.page < n IN SelectSeq(children, Earlier)

\* the listing of the ended iterdir failed
ListingFailed == result.calls[Len(result.calls)].error = "S3Exception"

\* C16: when the node resolves as a directory and the listing fails, at its first
\* page or after some pages, iterdir() ends without raising: the caller has the
\* children of the pages delivered before the failure (none when the first page
\* fails) and then the end of the sequence.
C16_IterdirSwallowsListingFailure ==
    (Ended("iterdir") /\ WasDir /\ result.listFail > 0)
        => /\ ~result.raised
           /\ result.value.exhausted
           /\ ListingFailed
                => result.value.children
                     = ChildrenBeforePage(
                          iterdir(before, Self, result.pageSize, 0, "all").value.children,
                          result.listFail)
           /\ (ListingFailed /\ result.listFail = 1) => result.value.children = <<>>

\* C16 witness: the second page failed after the first gave a child, and the
\* directory has more children than the caller got
C16_Witness ==
    /\ Ended("iterdir")
    /\ WasDir
    /\ result.listFail = 2
    /\ ListingFailed
    /\ ~result.raised
    /\ Len(result.value.children) = 1
    /\ Len(iterdir(before, Self, result.pageSize, 0, "all").value.children) = 2

\* C17: rmdir() on a node that resolves as a regular file issues no delete_object
\* and the object is still there afterwards.
C17_RmdirKeepsFiles ==
    (Ended("rmdir") /\ WasFile)
        => ~Called("delete_object") /\ key(Self) \in DOMAIN objects

\* C18: stat() reports a node with a non-empty key k as a directory only if some
\* object's key is k + "/" or starts with k + "/"; an object whose key merely starts
\* with the characters of k never makes k a directory.
C18_SiblingMakesNoDirectory ==
    (Ended("stat") /\ key(Self) # EmptyStr /\ ~result.raised
       /\ result.value.st_mode = S_IFDIR)
        => AnyKeyStartsWith(before, DirKey(key(Self)))

\* the bucket differs from the one before by at most a zero-byte object written at
\* key k
OnlyWrote(k) ==
    \/ objects = before
    \/ /\ DOMAIN objects = DOMAIN before \cup {k}
       /\ objects[k].size = 0
       /\ \A x \in DOMAIN before \ {k} : objects[x] = before[x]

\* C19: after mkdir() returns without error the node resolves as a directory
\* (is_dir() is true and mkdir(exist_ok=False) fails with already-exists), whatever
\* the bucket held before, and the only change is one zero-byte object whose key is
\* the node's key with one trailing separator.
C19_MkdirMakesDirectory ==
    (Ended("mkdir") /\ ~result.raised)
        => /\ is_dir(objects, Self, 1)
           /\ mkdir(objects, Self, FALSE, 1).raised
           /\ mkdir(objects, Self, FALSE, 1).exc.type = "FileExistsError"
           /\ OnlyWrote(DirKey(key(Self)))

\* C20: iterdir() on the bucket root of a bucket that holds objects yields a child
\* for every top-level object and every top-level prefix of the bucket.
C20_IterdirOfRoot ==
    (Ended("iterdir") /\ drive(Self) = Root /\ key(Self) = EmptyStr /\ before # NoObjects
       /\ ~result.raised /\ ~ListingFailed)
        => /\ PathsFrom(result.value.children, "object_info") = FileChildPaths(EmptyStr)
           /\ PathsFrom(result.value.children, "common_prefixes")
                 = DirChildPaths(EmptyStr)

====
